---------------------------- MODULE Spec2Model ----------------------------
(***************************************************************************)
(* Model of bevy_hanabi's EffectAsset (src/asset.rs) and CloneModifier     *)
(* (src/modifier/clone.rs).                                                *)
(*                                                                         *)
(*   SpecAsset : the builder operations of EffectAsset that register       *)
(*               modifiers, and the queries over the stored lists.         *)
(*   SpecProps : with_property / add_property.                             *)
(*   SpecClock : the per-frame duplication count of CloneModifier::apply.  *)
(*   SpecGen   : CloneModifier::apply against one ShaderWriter.            *)
(***************************************************************************)
EXTENDS Integers, Sequences, FiniteSets

VARIABLES
    init_modifiers,     \* EffectAsset::init_modifiers   : Seq(GroupedModifier)
    update_modifiers,   \* EffectAsset::update_modifiers : Seq(GroupedModifier)
    render_modifiers,   \* EffectAsset::render_modifiers : Seq(GroupedModifier)
    properties,         \* EffectAsset::properties       : Seq(property name)
    last,               \* the last builder call and whether it returned or panicked
    log,                \* history: the registrations that returned, in call order
    time,               \* sim_params.time, in ticks
    delta_time,         \* sim_params.delta_time, in ticks
    spawn_period,       \* CloneModifier::spawn_period of the simulated modifier, in ticks
    multiple_count,     \* value of multiple_count_<id> computed for the current frame
    start_time,         \* history: sim_params.time before the first frame
    frame,              \* history: number of frames simulated
    positive_deltas,    \* history: every frame so far had delta_time > 0
    spawned,            \* history: number of duplicate_<id>() calls over all frames
    extra_code,         \* ShaderWriter: function definitions emitted by make_fn
    main_code,          \* ShaderWriter::main_code : Seq(statement)
    applied,            \* history: the CloneModifiers applied to the ShaderWriter
    capacities,         \* EffectAsset::capacities : Seq(u32), one per group
    asset_name,         \* EffectAsset::name
    simulation_condition,   \* EffectAsset::simulation_condition
    simulation_space,   \* EffectAsset::simulation_space
    alpha_mode,         \* EffectAsset::alpha_mode
    render_group_indirect,  \* per group: dead_count, alive_count, instance_count (u32)
    indirect_buffer,    \* indirect_buffer.indices, from index 0
    particle_buffer,    \* particle_buffer.particles, from index 0
    ping,               \* render_effect_indirect.ping
    age_in_layout,      \* whether the particle layout contains Attribute::AGE
    dest,               \* {dest}: destination_group of the emitted duplicate_<id>()
    invocations,        \* the running calls of duplicate_<id>(), with their locals
    gpu_start           \* history: the buffers and counters before the first call

assetVars == <<init_modifiers, update_modifiers, render_modifiers, last, log>>
propVars  == <<properties>>
clockVars == <<time, delta_time, spawn_period, multiple_count, start_time,
               frame, positive_deltas, spawned>>
genVars   == <<extra_code, main_code, applied>>
buildVars == <<capacities, asset_name, simulation_condition, simulation_space, alpha_mode>>
gpuVars   == <<render_group_indirect, indirect_buffer, particle_buffer, ping,
               age_in_layout, dest, invocations, gpu_start>>
vars == <<assetVars, propVars, clockVars, genVars, buildVars, gpuVars>>

-----------------------------------------------------------------------------
(* Bounds *)

MaxRegs == 2            \* modifier registrations that return, per behaviour
MaxProps == 3           \* properties added, per behaviour
MaxStart == 2           \* sim_params.time before the first frame, in ticks
MaxTime == 7            \* sim_params.time of the last frame, in ticks
MaxDelta == 3           \* sim_params.delta_time, in ticks
MaxFrames == 4          \* frames simulated, per behaviour
MaxPeriod == 3          \* spawn_period, in ticks
MaxApplied == 3         \* CloneModifier::apply calls on one ShaderWriter

-----------------------------------------------------------------------------
(* ModifierContext: a bit set over Init, Update, Render *)

CtxInit == {"Init"}
CtxUpdate == {"Update"}
CtxRender == {"Render"}
ModifierContext == SUBSET {"Init", "Update", "Render"}

\* bitflags contains(): every bit of other is set in self
contains(self, other) == other \subseteq self

(* ParticleGroupSet: a bit set over the group indices 0..31 *)

NumGroupBits == 32
GroupIndex == 0 .. (NumGroupBits - 1)
single(i) == {i}
all == GroupIndex
groups_contains(groups, group_index) == group_index \in groups

-----------------------------------------------------------------------------
(* The modifiers handed to the builder.  Clone is CloneModifier;           *)
(* SetAttribute is SetAttributeModifier::new(Attribute::POSITION, ..),     *)
(* accepted by both add_modifier(Init) and add_modifier(Update);           *)
(* SetColor is the RenderModifier SetColorModifier; InitOnly and           *)
(* UpdateOnlyRender stand for implementations of the open Modifier and     *)
(* RenderModifier traits whose context() is Init, resp. Update.            *)

ModifierNames == {"InitOnly", "Clone", "SetAttribute", "SetColor", "UpdateOnlyRender"}

\* Modifier::context()
context(m) ==
    CASE m = "InitOnly"         -> CtxInit
      [] m = "Clone"            -> CtxUpdate
      [] m = "SetAttribute"     -> CtxInit \cup CtxUpdate
      [] m = "SetColor"         -> CtxRender
      [] m = "UpdateOnlyRender" -> CtxUpdate

\* Modifier::attributes()
attributes(m) ==
    CASE m = "InitOnly"         -> {"lifetime"}
      [] m = "Clone"            -> {}
      [] m = "SetAttribute"     -> {"position"}
      [] m = "SetColor"         -> {"color"}
      [] m = "UpdateOnlyRender" -> {"position", "size"}

\* the types that implement RenderModifier (M: RenderModifier, Box<dyn RenderModifier>)
RenderModifierNames == {"SetColor", "UpdateOnlyRender"}

\* Modifier::as_render(): Some for a RenderModifier, None otherwise
as_render(m) == m \in RenderModifierNames

\* the group sets handed to the *_groups operations
GroupSetInputs == {all, single(0), single(1)}

-----------------------------------------------------------------------------
(* EffectAsset: registration of modifiers *)

GroupedModifier(m, groups) == [modifier |-> m, groups |-> groups]

Call(op, ctx, m, outcome) == [op |-> op, context |-> ctx, modifier |-> m, outcome |-> outcome]

NoCall == Call("new", {}, "none", "ok")

\* the asset is still held: no earlier builder call dropped it
Held == last.outcome = "ok"

\* the builder call returned, having pushed gm on the list of phase ctx
Returns(op, ctx, m, gm) ==
    /\ Held
    /\ Len(log) < MaxRegs
    /\ UNCHANGED <<propVars, clockVars, genVars, buildVars, gpuVars>>
    /\ last' = Call(op, ctx, m, "ok")
    /\ log' = Append(log, [phase |-> ctx, modifier |-> gm.modifier, groups |-> gm.groups])

\* a failed assert!: the call unwinds before any push, and the asset, moved
\* into the builder call by value, is dropped: no later call sees it
Panics(op, ctx, m) ==
    /\ Held
    /\ UNCHANGED <<propVars, clockVars, genVars, buildVars, gpuVars>>
    /\ last' = Call(op, ctx, m, "panic")
    /\ UNCHANGED <<init_modifiers, update_modifiers, render_modifiers, log>>

\* init() inserting at the front of the list instead of pushing at its end
init_PushFront ==
    \E m \in ModifierNames :
        IF contains(context(m), CtxInit)
        THEN /\ init_modifiers' = <<GroupedModifier(m, single(0))>> \o init_modifiers
             /\ UNCHANGED <<update_modifiers, render_modifiers>>
             /\ Returns("init", CtxInit, m, GroupedModifier(m, single(0)))
        ELSE Panics("init", CtxInit, m)

init ==
    \E m \in ModifierNames :
        IF contains(context(m), CtxInit)
        THEN /\ init_modifiers' = Append(init_modifiers, GroupedModifier(m, single(0)))
             /\ UNCHANGED <<update_modifiers, render_modifiers>>
             /\ Returns("init", CtxInit, m, GroupedModifier(m, single(0)))
        ELSE Panics("init", CtxInit, m)

update ==
    \E m \in ModifierNames :
        IF contains(context(m), CtxUpdate)
        THEN /\ update_modifiers' = Append(update_modifiers, GroupedModifier(m, all))
             /\ UNCHANGED <<init_modifiers, render_modifiers>>
             /\ Returns("update", CtxUpdate, m, GroupedModifier(m, all))
        ELSE Panics("update", CtxUpdate, m)

update_groups ==
    \E m \in ModifierNames, groups \in GroupSetInputs :
        /\ update_modifiers' = Append(update_modifiers, GroupedModifier(m, groups))
        /\ UNCHANGED <<init_modifiers, render_modifiers>>
        /\ Returns("update_groups", CtxUpdate, m, GroupedModifier(m, groups))

\* add_modifier_to_groups() without its first assert!
add_modifier_to_groups_NoContextAssert(op, ctx, m, groups) ==
    IF ~contains(context(m), ctx)
    THEN Panics(op, ctx, m)
    ELSE /\ IF ctx = CtxInit
            THEN /\ init_modifiers' = Append(init_modifiers, GroupedModifier(m, groups))
                 /\ UNCHANGED <<update_modifiers, render_modifiers>>
            ELSE /\ update_modifiers' = Append(update_modifiers, GroupedModifier(m, groups))
                 /\ UNCHANGED <<init_modifiers, render_modifiers>>
         /\ Returns(op, ctx, m, GroupedModifier(m, groups))

add_modifier_to_groups_(op, ctx, m, groups) ==
    IF ~(ctx = CtxInit \/ ctx = CtxUpdate)
    THEN Panics(op, ctx, m)
    ELSE IF ~contains(context(m), ctx)
    THEN Panics(op, ctx, m)
    ELSE /\ IF ctx = CtxInit
            THEN /\ init_modifiers' = Append(init_modifiers, GroupedModifier(m, groups))
                 /\ UNCHANGED <<update_modifiers, render_modifiers>>
            ELSE /\ update_modifiers' = Append(update_modifiers, GroupedModifier(m, groups))
                 /\ UNCHANGED <<init_modifiers, render_modifiers>>
         /\ Returns(op, ctx, m, GroupedModifier(m, groups))

add_modifier_to_groups ==
    /\ Held
    /\ \E ctx \in ModifierContext, m \in ModifierNames, groups \in GroupSetInputs :
           add_modifier_to_groups_("add_modifier_to_groups", ctx, m, groups)

add_modifier ==
    /\ Held
    /\ \E ctx \in ModifierContext, m \in ModifierNames :
           add_modifier_to_groups_("add_modifier", ctx, m, all)

render_(op, m, groups) ==
    IF contains(context(m), CtxRender)
    THEN /\ render_modifiers' = Append(render_modifiers, GroupedModifier(m, groups))
         /\ UNCHANGED <<init_modifiers, update_modifiers>>
         /\ Returns(op, CtxRender, m, GroupedModifier(m, groups))
    ELSE Panics(op, CtxRender, m)

render ==
    /\ Held
    /\ \E m \in RenderModifierNames : render_("render", m, all)

render_groups ==
    /\ Held
    /\ \E m \in RenderModifierNames, groups \in GroupSetInputs :
           render_("render_groups", m, groups)

add_render_modifier ==
    /\ Held
    /\ \E m \in RenderModifierNames : render_("add_render_modifier", m, all)

add_render_modifier_to_groups ==
    /\ Held
    /\ \E m \in RenderModifierNames, groups \in GroupSetInputs :
           render_("add_render_modifier_to_groups", m, groups)

-----------------------------------------------------------------------------
(* EffectAsset: queries *)

RECURSIVE MapModifier(_)
MapModifier(list) ==
    IF list = <<>> THEN <<>>
    ELSE <<Head(list).modifier>> \o MapModifier(Tail(list))

\* modifiers() without the last chain()
modifiers_NoRender ==
    MapModifier(init_modifiers) \o MapModifier(update_modifiers)

\* modifiers(): init, then update, then render modifiers
modifiers ==
    MapModifier(init_modifiers) \o MapModifier(update_modifiers)
        \o MapModifier(render_modifiers)

\* the filter of update_modifiers_for_group() without the group test
KeepUpdateInGroup_AnyGroup(group_index, gm) ==
    contains(context(gm.modifier), CtxUpdate)

KeepUpdateInGroup(group_index, gm) ==
    groups_contains(gm.groups, group_index) /\ contains(context(gm.modifier), CtxUpdate)

update_modifiers_for_group(group_index) ==
    MapModifier(SelectSeq(update_modifiers,
                          LAMBDA gm : KeepUpdateInGroup(group_index, gm)))

KeepRenderInGroup(group_index, gm) ==
    groups_contains(gm.groups, group_index) /\ as_render(gm.modifier)

render_modifiers_for_group(group_index) ==
    MapModifier(SelectSeq(render_modifiers,
                          LAMBDA gm : KeepRenderInGroup(group_index, gm)))

-----------------------------------------------------------------------------
(* ParticleLayout: the packed layout of a set of attributes *)

\* the attributes the modifiers declare, in name order
AttributeNames == <<"color", "lifetime", "position", "size">>

NameRank(a) == CHOOSE i \in 1 .. Len(AttributeNames) : AttributeNames[i] = a

\* number of components of the attribute's value type
Components(a) ==
    CASE a = "color"    -> 1
      [] a = "lifetime" -> 1
      [] a = "position" -> 3
      [] a = "size"     -> 2

\* 1 component: 4 bytes, align 4; 2: 8/8; 3 or 4: 16/16
SizeOf(a)  == CASE Components(a) = 1 -> 4 [] Components(a) = 2 -> 8 [] OTHER -> 16
AlignOf(a) == CASE Components(a) = 1 -> 4 [] Components(a) = 2 -> 8 [] OTHER -> 16

\* canonical packing order: largest alignment first, then by name
Before(a, b) ==
    \/ AlignOf(a) > AlignOf(b)
    \/ AlignOf(a) = AlignOf(b) /\ NameRank(a) < NameRank(b)

RECURSIVE SortAttrs(_)
SortAttrs(S) ==
    IF S = {} THEN <<>>
    ELSE LET first == CHOOSE a \in S : \A b \in S \ {a} : Before(a, b)
         IN  <<first>> \o SortAttrs(S \ {first})

Max(a, b) == IF a >= b THEN a ELSE b

AlignUp(cursor, align) == ((cursor + align - 1) \div align) * align

RECURSIVE Pack(_, _)
Pack(sorted, cursor) ==
    IF sorted = <<>> THEN <<>>
    ELSE LET a == Head(sorted)
             offset == AlignUp(cursor, AlignOf(a))
         IN  <<[name |-> a, offset |-> offset]>> \o Pack(Tail(sorted), offset + SizeOf(a))

Range(seq) == {seq[i] : i \in DOMAIN seq}

ParticleLayout_new == <<>>
ParticleLayout_append(layout, attr) == Append(layout, attr)
ParticleLayout_build(layout) == Pack(SortAttrs(Range(layout)), 0)

\* the iteration orders of a HashSet holding S
IterationOrders(S) ==
    {order \in [1 .. Cardinality(S) -> S] : Range(order) = S}

\* the HashSet of particle_layout(): every attribute of every modifier
AttributeSet(mods) == UNION {attributes(mods[i]) : i \in DOMAIN mods}

RECURSIVE AppendAll(_, _)
AppendAll(layout, order) ==
    IF order = <<>> THEN layout
    ELSE AppendAll(ParticleLayout_append(layout, Head(order)), Tail(order))

\* particle_layout(): the layout is appended to in the set's iteration order
particle_layout ==
    /\ Held
    /\ UNCHANGED <<propVars, clockVars, genVars, buildVars, gpuVars>>
    /\ \E order \in IterationOrders(AttributeSet(modifiers)) :
           last' = [op |-> "particle_layout", context |-> {}, modifier |-> "none",
                    outcome |-> "ok",
                    result |-> ParticleLayout_build(AppendAll(ParticleLayout_new, order))]
    /\ UNCHANGED <<init_modifiers, update_modifiers, render_modifiers, log>>

-----------------------------------------------------------------------------
(* EffectAsset: properties *)

PropertyNames == {"my_prop", "other_prop", "p"}
\* graph::Value: Scalar is a one-component value (345_u32 in tests::property),
\* Vec2, Vec3 and Vec4 are Value::Vector of 2, 3 and 4 components
ValueTypes == {"Scalar", "Vec2", "Vec3", "Vec4"}

Property_new(name, default_value) == [name |-> name, default_value |-> default_value]

PropCall(op, name, outcome) == [op |-> op, name |-> name, outcome |-> outcome]

\* add_property() without its assert!
add_property_NoAssert(op, name, default_value) ==
    /\ UNCHANGED <<init_modifiers, update_modifiers, render_modifiers, log>>
    /\ UNCHANGED <<clockVars, genVars, buildVars, gpuVars>>
    /\ Len(properties) < MaxProps
    /\ properties' = Append(properties, Property_new(name, default_value))
    /\ last' = PropCall(op, name, "ok")

add_property_(op, name, default_value) ==
    /\ UNCHANGED <<init_modifiers, update_modifiers, render_modifiers, log>>
    /\ UNCHANGED <<clockVars, genVars, buildVars, gpuVars>>
    /\ IF \E i \in DOMAIN properties : properties[i].name = name
       THEN /\ last' = PropCall(op, name, "panic")
            /\ UNCHANGED properties
       ELSE /\ Len(properties) < MaxProps
            /\ properties' = Append(properties, Property_new(name, default_value))
            /\ last' = PropCall(op, name, "ok")

\* add_property(&mut self, ..): the caller still holds the asset after a panic
add_property ==
    /\ ~(last.op = "with_property" /\ last.outcome = "panic")
    /\ \E name \in PropertyNames, default_value \in ValueTypes :
           add_property_("add_property", name, default_value)

\* with_property(mut self, ..): the asset is moved in, and dropped by a panic
with_property ==
    /\ ~(last.op = "with_property" /\ last.outcome = "panic")
    /\ \E name \in PropertyNames, default_value \in ValueTypes :
           add_property_("with_property", name, default_value)

-----------------------------------------------------------------------------
(* PropertyLayout: the packed layout of the properties *)

\* the order of property names, for the tie-break of the packing order
PropertyNameOrder == <<"my_prop", "other_prop", "p">>

PropertyRank(n) == CHOOSE i \in 1 .. Len(PropertyNameOrder) : PropertyNameOrder[i] = n

\* the size table with a 3-component vector taking 16 bytes
ValueSize_Vec3Is16(value_type) ==
    CASE value_type = "Scalar" -> 4
      [] value_type = "Vec2"   -> 8
      [] value_type = "Vec3"   -> 16
      [] value_type = "Vec4"   -> 16

\* byte size of a value: tests::property packs a u32 at offset 12, right
\* after a Vec3 at offset 0, in a layout of size 16
ValueSize(value_type) ==
    CASE value_type = "Scalar" -> 4
      [] value_type = "Vec2"   -> 8
      [] value_type = "Vec3"   -> 12
      [] value_type = "Vec4"   -> 16

\* byte alignment of a value: the layout of tests::property has align() = 16
ValueAlign(value_type) ==
    CASE value_type = "Scalar" -> 4
      [] value_type = "Vec2"   -> 8
      [] value_type = "Vec3"   -> 16
      [] value_type = "Vec4"   -> 16

PropertyBefore(p, q) ==
    \/ ValueAlign(p.default_value) > ValueAlign(q.default_value)
    \/ /\ ValueAlign(p.default_value) = ValueAlign(q.default_value)
       /\ PropertyRank(p.name) < PropertyRank(q.name)

RECURSIVE SortProperties(_)
SortProperties(S) ==
    IF S = {} THEN <<>>
    ELSE LET first == CHOOSE p \in S : \A q \in S \ {p} : PropertyBefore(p, q)
         IN  <<first>> \o SortProperties(S \ {first})

RECURSIVE PackProperties(_, _)
PackProperties(sorted, cursor) ==
    IF sorted = <<>> THEN <<>>
    ELSE LET p == Head(sorted)
             offset == AlignUp(cursor, ValueAlign(p.default_value))
         IN  <<[name |-> p.name, offset |-> offset,
                size |-> ValueSize(p.default_value),
                align |-> ValueAlign(p.default_value)]>>
                 \o PackProperties(Tail(sorted), offset + ValueSize(p.default_value))

MinAlign == 4

RECURSIVE MaxAlignOf(_)
MaxAlignOf(entries) ==
    IF entries = <<>> THEN MinAlign
    ELSE Max(Head(entries).align, MaxAlignOf(Tail(entries)))

EndOf(entries) ==
    IF entries = <<>> THEN 0
    ELSE entries[Len(entries)].offset + entries[Len(entries)].size

\* PropertyLayout::new(iter)
PropertyLayout_new(props) ==
    LET entries == PackProperties(SortProperties(Range(props)), 0)
        align == MaxAlignOf(entries)
    IN  [entries |-> entries, align |-> align, size |-> AlignUp(EndOf(entries), align)]

\* PropertyLayout::offset(name): Some(offset) or None
PropertyLayout_offset(layout, n) ==
    IF \E i \in DOMAIN layout.entries : layout.entries[i].name = n
    THEN layout.entries[CHOOSE i \in DOMAIN layout.entries : layout.entries[i].name = n].offset
    ELSE "None"

\* no panic of a by-value builder call has dropped the asset
PropsHeld == ~(last.outcome = "panic" /\ last.op # "add_property")

\* property_layout() that leaves out the first property
property_layout_SkipFirst ==
    /\ PropsHeld
    /\ last' = [op |-> "property_layout", name |-> "none", outcome |-> "ok",
                result |-> PropertyLayout_new(IF properties = <<>> THEN <<>>
                                              ELSE Tail(properties))]
    /\ UNCHANGED <<init_modifiers, update_modifiers, render_modifiers, log>>
    /\ UNCHANGED <<propVars, clockVars, genVars, buildVars, gpuVars>>

\* property_layout(): PropertyLayout::new(self.properties.iter())
property_layout ==
    /\ PropsHeld
    /\ last' = [op |-> "property_layout", name |-> "none", outcome |-> "ok",
                result |-> PropertyLayout_new(properties)]
    /\ UNCHANGED <<init_modifiers, update_modifiers, render_modifiers, log>>
    /\ UNCHANGED <<propVars, clockVars, genVars, buildVars, gpuVars>>

-----------------------------------------------------------------------------
(* EffectAsset: construction and the with_* setters *)

\* the capacities handed to EffectAsset::new
CapacityInputs == {<<4096>>, <<256, 512>>, <<0>>}

\* EffectAsset::new(capacities, spawner, module): ..default() for the rest
new(caps) ==
    /\ capacities = caps
    /\ asset_name = ""
    /\ simulation_condition = "WhenVisible"
    /\ simulation_space = "Global"
    /\ alpha_mode = "Blend"
    /\ init_modifiers = <<>> /\ update_modifiers = <<>> /\ render_modifiers = <<>>
    /\ properties = <<>>

SetterFrame(op) ==
    /\ PropsHeld
    /\ last' = PropCall(op, "none", "ok")
    /\ UNCHANGED <<init_modifiers, update_modifiers, render_modifiers, log>>
    /\ UNCHANGED <<propVars, clockVars, genVars, gpuVars>>

\* with_name() written as a struct update from Default
with_name_FromDefault ==
    /\ SetterFrame("with_name")
    /\ asset_name' = "Effect"
    /\ capacities' = <<>>
    /\ UNCHANGED <<simulation_condition, simulation_space, alpha_mode>>

with_name ==
    /\ SetterFrame("with_name")
    /\ asset_name' = "Effect"
    /\ UNCHANGED <<capacities, simulation_condition, simulation_space, alpha_mode>>

with_simulation_condition ==
    /\ SetterFrame("with_simulation_condition")
    /\ simulation_condition' = "Always"
    /\ UNCHANGED <<capacities, asset_name, simulation_space, alpha_mode>>

with_simulation_space ==
    /\ SetterFrame("with_simulation_space")
    /\ simulation_space' = "Local"
    /\ UNCHANGED <<capacities, asset_name, simulation_condition, alpha_mode>>

with_alpha_mode ==
    /\ SetterFrame("with_alpha_mode")
    /\ alpha_mode' = "Mask"
    /\ UNCHANGED <<capacities, asset_name, simulation_condition, simulation_space>>

-----------------------------------------------------------------------------
(* CloneModifier::apply: the code emitted into the group's main code, run   *)
(* once per frame for a particle.  Times are exact multiples of one tick.   *)

floor(num, den) == num \div den
ceil(num, den) == -((-num) \div den)

\* max(0, i32(floor(b / m)) - i32(ceil((b - delta) / m)) + 1)
MultipleCount(b, delta, m) ==
    Max(0, floor(b, m) - ceil(b - delta, m) + 1)

\* one frame of the simulation: the emitted statement of apply() runs with
\* sim_params.time advanced by sim_params.delta_time
Frame ==
    \E d \in 0 .. MaxDelta :
        /\ time + d <= MaxTime
        /\ frame < MaxFrames
        /\ frame' = frame + 1
        /\ time' = time + d
        /\ delta_time' = d
        /\ multiple_count' = IF spawn_period <= 0 THEN 1
                              ELSE MultipleCount(time + d, d, spawn_period)
        /\ spawned' = spawned + multiple_count'
        /\ positive_deltas' = (positive_deltas /\ d > 0)
        /\ UNCHANGED <<spawn_period, start_time>>
        /\ UNCHANGED <<assetVars, propVars, genVars, buildVars, gpuVars>>

-----------------------------------------------------------------------------
(* CloneModifier::apply against one ShaderWriter *)

PeriodInputs == {-1, 0, 1, 2}
DestInputs == {0, 1, 2}

CloneModifier_new(period, destination_group) ==
    [spawn_period |-> period, destination_group |-> destination_group]

CloneModifiers == {CloneModifier_new(p, g) : p \in PeriodInputs, g \in DestInputs}

\* FloatOrd's hash writes the bits of the float (of 0.0 for both zeroes)
FloatOrd(x) == x

\* impl Hash for CloneModifier that leaves out the destination group
hash_PeriodOnly(self) == <<FloatOrd(self.spawn_period)>>

\* impl Hash for CloneModifier that writes the period only when it is > 0
hash_PositivePeriodOnly(self) ==
    <<FloatOrd(IF self.spawn_period > 0 THEN self.spawn_period ELSE 0),
      self.destination_group>>

\* impl Hash for CloneModifier: what is written to the hasher
hash(self) == <<FloatOrd(self.spawn_period), self.destination_group>>

\* calc_func_id(): the 64-bit digest of what the modifier's Hash impl
\* writes, one digest per written sequence
calc_func_id(self) ==
    LET written == hash(self)
    IN  IF Len(written) = 2
        THEN 1 + (written[1] + 1) * (1 + Cardinality(DestInputs)) + written[2]
        ELSE 1 + (written[1] + 1) * (1 + Cardinality(DestInputs))
                + Cardinality(DestInputs)

Defined(code, func_name) == \E k \in DOMAIN code : code[k].name = func_name

\* ShaderWriter::make_fn: the function is emitted once per name
make_fn(code, func_name, body) ==
    IF Defined(code, func_name) THEN code
    ELSE Append(code, [name |-> func_name, body |-> body])

apply ==
    \E self \in CloneModifiers :
        LET func_id == calc_func_id(self)
            func_name == <<"duplicate", func_id>>
            multiple_count_name == <<"multiple_count", func_id>>
        IN  /\ Len(applied) < MaxApplied
            /\ extra_code' = make_fn(extra_code, func_name,
                                     [dest |-> self.destination_group])
            /\ main_code' =
                   IF self.spawn_period <= 0
                   THEN Append(main_code, [kind |-> "call", func |-> func_name])
                   ELSE Append(main_code,
                               [kind |-> "loop", let |-> multiple_count_name,
                                m |-> self.spawn_period, func |-> func_name])
            /\ applied' = Append(applied, self)
            /\ UNCHANGED <<assetVars, propVars, clockVars, buildVars, gpuVars>>

-----------------------------------------------------------------------------
(* Placeholders of the other specifications' variables *)

PropsIdle == properties = <<>>
ClockIdle ==
    /\ time = 0 /\ delta_time = 0 /\ spawn_period = 1
    /\ multiple_count = 0 /\ start_time = 0 /\ spawned = 0
    /\ frame = 0
    /\ positive_deltas = TRUE
GenIdle == extra_code = <<>> /\ main_code = <<>> /\ applied = <<>>
AssetIdle ==
    /\ init_modifiers = <<>> /\ update_modifiers = <<>> /\ render_modifiers = <<>>
    /\ last = NoCall /\ log = <<>>
\* the asset of the tests: capacities [4096], every other field at its Default
BuildIdle ==
    /\ capacities = <<4096>> /\ asset_name = ""
    /\ simulation_condition = "WhenVisible" /\ simulation_space = "Global"
    /\ alpha_mode = "Blend"
GpuIdle ==
    /\ render_group_indirect = <<>> /\ indirect_buffer = <<>> /\ particle_buffer = <<>>
    /\ ping = 0 /\ age_in_layout = FALSE /\ dest = 0
    /\ invocations = <<>> /\ gpu_start = <<>>

-----------------------------------------------------------------------------
(* SpecAsset *)

InitAsset == AssetIdle /\ PropsIdle /\ ClockIdle /\ GenIdle /\ BuildIdle /\ GpuIdle

NextAsset ==
    \/ init
    \/ update
    \/ update_groups
    \/ add_modifier
    \/ add_modifier_to_groups
    \/ render
    \/ render_groups
    \/ add_render_modifier
    \/ add_render_modifier_to_groups
    \/ particle_layout

SpecAsset == InitAsset /\ [][NextAsset]_vars

-----------------------------------------------------------------------------
(* SpecProps *)

InitProps == AssetIdle /\ PropsIdle /\ ClockIdle /\ GenIdle /\ BuildIdle /\ GpuIdle

NextProps ==
    \/ add_property
    \/ with_property

SpecProps == InitProps /\ [][NextProps]_vars

-----------------------------------------------------------------------------
(* SpecBuild: construction, setters, properties and the property layout *)

InitBuild ==
    /\ \E caps \in CapacityInputs : new(caps)
    /\ last = NoCall /\ log = <<>>
    /\ ClockIdle /\ GenIdle /\ GpuIdle

NextBuild ==
    \/ with_name
    \/ with_simulation_condition
    \/ with_simulation_space
    \/ with_alpha_mode
    \/ add_property
    \/ with_property
    \/ property_layout

SpecBuild == InitBuild /\ [][NextBuild]_vars

-----------------------------------------------------------------------------
(* SpecClock *)

InitClock ==
    /\ AssetIdle /\ PropsIdle /\ GenIdle /\ BuildIdle /\ GpuIdle
    /\ start_time \in 0 .. MaxStart
    /\ time = start_time
    /\ delta_time = 0
    /\ spawn_period \in 0 .. MaxPeriod
    /\ multiple_count = 0
    /\ spawned = 0
    /\ frame = 0
    /\ positive_deltas = TRUE

NextClock == Frame

SpecClock == InitClock /\ [][NextClock]_vars

-----------------------------------------------------------------------------
(* SpecGen *)

InitGen == AssetIdle /\ PropsIdle /\ ClockIdle /\ GenIdle /\ BuildIdle /\ GpuIdle

NextGen == apply

SpecGen == InitGen /\ [][NextGen]_vars

-----------------------------------------------------------------------------
(* Properties of SpecAsset and SpecProps *)

Lists == <<init_modifiers, update_modifiers, render_modifiers>>

\* the registrations of the log into phase ctx, as the list entries they pushed
RECURSIVE Registered(_, _)
Registered(ctx, l) ==
    IF l = <<>> THEN <<>>
    ELSE (IF Head(l).phase = ctx
          THEN <<GroupedModifier(Head(l).modifier, Head(l).groups)>>
          ELSE <<>>) \o Registered(ctx, Tail(l))

\* C1: a modifier whose context() does not include the target phase is
\* rejected by every registration operation: every returned call had a
\* modifier that supports its target phase, and every stored modifier
\* supports the phase of the list it is stored in.
C1_WrongPhaseRejected ==
    /\ (last.op # "new" /\ last.op # "particle_layout" /\ last.outcome = "ok")
            => contains(context(last.modifier), last.context)
    /\ \A i \in DOMAIN init_modifiers :
            contains(context(init_modifiers[i].modifier), CtxInit)
    /\ \A i \in DOMAIN update_modifiers :
            contains(context(update_modifiers[i].modifier), CtxUpdate)
    /\ \A i \in DOMAIN render_modifiers :
            contains(context(render_modifiers[i].modifier), CtxRender)

\* C2: the names in properties() are pairwise distinct; an add of a name
\* already present panics and appends nothing, an add of a new name appends
\* exactly one property with that name.
PropertyNamesDistinct ==
    \A i, j \in DOMAIN properties :
        properties[i].name = properties[j].name => i = j

AddPropertyStep ==
    LET present == \E i \in DOMAIN properties : properties[i].name = last'.name
    IN  IF present
        THEN last'.outcome = "panic" /\ properties' = properties
        ELSE /\ last'.outcome = "ok"
             /\ Len(properties') = Len(properties) + 1
             /\ SubSeq(properties', 1, Len(properties)) = properties
             /\ properties'[Len(properties')].name = last'.name

C2_PropertyNamesUnique ==
    []PropertyNamesDistinct /\ [][AddPropertyStep]_vars

C2_Witness ==
    /\ Len(properties) = 2
    /\ last.outcome = "panic"
    /\ \E i \in DOMAIN properties : properties[i].name = last.name

\* C3: add_modifier / add_modifier_to_groups called with a context that is
\* neither exactly Init nor exactly Update (Render, no bit, several bits)
\* panics and stores nothing in any phase list.
GenericPath(call) == call.op \in {"add_modifier", "add_modifier_to_groups"}

C3_GenericPathContext ==
    [][(GenericPath(last') /\ last'.context \notin {CtxInit, CtxUpdate})
          => (last'.outcome = "panic" /\ Lists' = Lists)]_vars

C3_Witness ==
    /\ GenericPath(last)
    /\ last.context = CtxInit \cup CtxUpdate
    /\ last.modifier = "SetAttribute"
    /\ last.outcome = "panic"
    /\ Len(log) >= 1

\* C4: each phase list is exactly the registrations into that phase, in
\* registration order, and modifiers() lists the init, then the update, then
\* the render modifiers, one per returned registration.
C4_RegistrationOrder ==
    /\ init_modifiers = Registered(CtxInit, log)
    /\ update_modifiers = Registered(CtxUpdate, log)
    /\ render_modifiers = Registered(CtxRender, log)
    /\ modifiers = MapModifier(Registered(CtxInit, log))
                        \o MapModifier(Registered(CtxUpdate, log))
                        \o MapModifier(Registered(CtxRender, log))
    /\ Len(modifiers) = Len(log)

C4_Witness ==
    /\ Len(log) = 2
    /\ log[1].phase = CtxRender /\ log[2].phase = CtxInit
    /\ modifiers = <<"InitOnly", "SetColor">>

C4_WitnessSamePhase ==
    /\ Len(init_modifiers) = 2
    /\ init_modifiers[1].modifier = "SetAttribute"
    /\ init_modifiers[2].modifier = "InitOnly"

\* C5: every entry of the init modifier list has the group set {0}.
C5_InitGroupZero ==
    \A i \in DOMAIN init_modifiers : init_modifiers[i].groups = single(0)

\* C6: for every group index g, update_modifiers_for_group(g) is the
\* registered update modifiers whose mask contains g and whose context
\* includes Update, and render_modifiers_for_group(g) the registered render
\* modifiers whose mask contains g, both in registration order; a modifier
\* registered with update() or render() is yielded for every g.
LoggedFor(ctx, g) ==
    MapModifier(SelectSeq(Registered(ctx, log),
                          LAMBDA gm : g \in gm.groups
                                      /\ ctx \subseteq context(gm.modifier)))

EndsWith(seq, m) == seq # <<>> /\ seq[Len(seq)] = m

C6_GroupSelection ==
    \A g \in GroupIndex :
        /\ update_modifiers_for_group(g) = LoggedFor(CtxUpdate, g)
        /\ render_modifiers_for_group(g) = LoggedFor(CtxRender, g)
        /\ (last.op = "update" /\ last.outcome = "ok")
               => EndsWith(update_modifiers_for_group(g), last.modifier)
        /\ (last.op = "render" /\ last.outcome = "ok")
               => EndsWith(render_modifiers_for_group(g), last.modifier)

C6_Witness ==
    /\ Len(update_modifiers) = 2
    /\ update_modifiers[1] = GroupedModifier("Clone", single(1))
    /\ update_modifiers[2] = GroupedModifier("SetAttribute", all)
    /\ update_modifiers_for_group(0) = <<"SetAttribute">>
    /\ update_modifiers_for_group(1) = <<"Clone", "SetAttribute">>

\* C10: the layout returned by particle_layout() holds exactly the union of
\* the attributes of every registered modifier of the three phases, each
\* once, whatever the order of registration and of iteration; a CloneModifier
\* adds nothing.
LoggedAttributes(l) == UNION {attributes(l[i].modifier) : i \in DOMAIN l}

RECURSIVE WithoutClone(_)
WithoutClone(l) ==
    IF l = <<>> THEN <<>>
    ELSE (IF Head(l).modifier = "Clone" THEN <<>> ELSE <<Head(l)>>)
             \o WithoutClone(Tail(l))

LayoutNames(layout) == {layout[i].name : i \in DOMAIN layout}

C10_ParticleLayoutUnion ==
    last.op = "particle_layout" =>
        /\ LayoutNames(last.result) = LoggedAttributes(log)
        /\ Len(last.result) = Cardinality(LoggedAttributes(log))
        /\ last.result = Pack(SortAttrs(LoggedAttributes(WithoutClone(log))), 0)

C10_Witness ==
    /\ last.op = "particle_layout"
    /\ Len(log) = 2
    /\ log[1].modifier = "SetColor" /\ log[2].modifier = "SetAttribute"
    /\ LayoutNames(last.result) = {"color", "position"}

-----------------------------------------------------------------------------
(* Properties of SpecClock *)

\* number of multiples k * m with lo < k * m <= hi, for 0 <= lo <= hi
MultiplesIn(lo, hi, m) ==
    Cardinality({k \in 0 .. hi : lo < k * m /\ k * m <= hi})

\* C7: for a period P > 0 the count computed for a frame is the number of
\* multiples of P in the half-open interval (time - delta_time, time].
C7_CountHalfOpen ==
    spawn_period > 0
        => multiple_count = MultiplesIn(time - delta_time, time, spawn_period)

\* C8: over consecutive frames with positive deltas the counts sum to the
\* number of multiples of P in (start_time, time]: none skipped, none
\* counted in two frames.
C8_NoSkipNoDouble ==
    (spawn_period > 0 /\ positive_deltas)
        => spawned = MultiplesIn(start_time, time, spawn_period)

-----------------------------------------------------------------------------
(* Properties of SpecGen *)

Definitions(func_name) == {k \in DOMAIN extra_code : extra_code[k].name = func_name}

\* C9: two applied CloneModifiers with identical spawn_period and
\* destination_group give one function definition and two call sites naming
\* it; two that differ only in destination_group give two function names
\* and two definitions.
C9_FunctionDedup ==
    \A i, j \in DOMAIN applied :
        i < j =>
            /\ applied[i] = applied[j] =>
                   /\ main_code[i].func = main_code[j].func
                   /\ Cardinality(Definitions(main_code[i].func)) = 1
            /\ (applied[i].spawn_period = applied[j].spawn_period
                    /\ applied[i].destination_group # applied[j].destination_group) =>
                   /\ main_code[i].func # main_code[j].func
                   /\ Cardinality(Definitions(main_code[i].func)) = 1
                   /\ Cardinality(Definitions(main_code[j].func)) = 1
                   /\ Cardinality(Definitions(main_code[i].func)
                                      \cup Definitions(main_code[j].func)) = 2

C9_Witness ==
    /\ Len(applied) = 3
    /\ applied[1] = applied[2]
    /\ applied[3].spawn_period = applied[1].spawn_period
    /\ applied[3].destination_group # applied[1].destination_group
    /\ Len(extra_code) = 2
    /\ Len(main_code) = 3

-----------------------------------------------------------------------------
(* Properties of SpecBuild *)

Permutations(seq) ==
    {perm \in [DOMAIN seq -> Range(seq)] : Range(perm) = Range(seq)}

AddedNames == {properties[i].name : i \in DOMAIN properties}

C13_CapacitiesNonZero ==
    \A i \in DOMAIN capacities : capacities[i] # 0

\* C14: no builder operation and no layout query changes capacities().
C14_CapacitiesImmutable ==
    [][capacities' = capacities]_vars

C14_Witness ==
    /\ capacities = <<256, 512>>
    /\ asset_name = "Effect"
    /\ simulation_condition = "Always"
    /\ simulation_space = "Local"
    /\ alpha_mode = "Mask"
    /\ Len(properties) = 2
    /\ last.op = "property_layout"

\* the value type of the added property n
TypeOfProperty(n) ==
    properties[CHOOSE i \in DOMAIN properties : properties[i].name = n].default_value

\* offset is the smallest multiple of align that is >= cursor
SmallestMultipleFrom(offset, align, cursor) ==
    /\ offset % align = 0
    /\ offset >= cursor
    /\ offset - align < cursor

\* layout is what the reference packing gives for the added properties with
\* the sizes SizeT: entries by decreasing alignment, then by name; each
\* offset the smallest multiple of the alignment from the cursor, the cursor
\* advancing by the size; the size rounded up to the layout alignment
IsReferencePacking(layout, SizeT(_)) ==
    LET entries == layout.entries
        cursor(i) == IF i = 1 THEN 0
                     ELSE entries[i - 1].offset + SizeT(TypeOfProperty(entries[i - 1].name))
    IN  /\ {entries[i].name : i \in DOMAIN entries} = AddedNames
        /\ Len(entries) = Len(properties)
        /\ \A i, j \in DOMAIN entries :
               i < j =>
                   LET ai == ValueAlign(TypeOfProperty(entries[i].name))
                       aj == ValueAlign(TypeOfProperty(entries[j].name))
                   IN  \/ ai > aj
                       \/ ai = aj /\ PropertyRank(entries[i].name)
                                        < PropertyRank(entries[j].name)
        /\ \A i \in DOMAIN entries :
               SmallestMultipleFrom(entries[i].offset,
                                    ValueAlign(TypeOfProperty(entries[i].name)),
                                    cursor(i))
        /\ \A i \in DOMAIN entries :
               layout.align >= ValueAlign(TypeOfProperty(entries[i].name))
        /\ \E i \in DOMAIN entries :
               layout.align = ValueAlign(TypeOfProperty(entries[i].name))
        /\ SmallestMultipleFrom(layout.size, layout.align, cursor(Len(entries) + 1))

\* the properties of tests::property, as added there
TestProperties ==
    <<Property_new("my_prop", "Scalar"), Property_new("other_prop", "Vec3")>>

\* the assertions of tests::property on the layout
TestLayout(layout) ==
    /\ layout.size = 16
    /\ layout.align = 16
    /\ PropertyLayout_offset(layout, "my_prop") = 12
    /\ PropertyLayout_offset(layout, "other_prop") = 0
    /\ PropertyLayout_offset(layout, "unknown") = "None"

-----------------------------------------------------------------------------
(* Properties of SpecGen: function identity *)

\* C16 as stated: the generated function name depends only on the
\* destination group and, when spawn_period > 0, on the period: two applied
\* modifiers with one destination group and periods <= 0 share a function.
C16_IdentityIgnoresNonPositivePeriod ==
    \A i, j \in DOMAIN applied :
        (/\ applied[i].destination_group = applied[j].destination_group
         /\ applied[i].spawn_period <= 0
         /\ applied[j].spawn_period <= 0)
            => main_code[i].func = main_code[j].func

\* C16 amended: the generated function name depends on the destination
\* group and on the period whatever its sign: two applied modifiers share a
\* function exactly when both fields are equal, so periods 0 and -1 into one
\* destination group give two functions.
C16_IdentityIsPeriodAndGroup ==
    \A i, j \in DOMAIN applied :
        /\ (main_code[i].func = main_code[j].func) <=> (applied[i] = applied[j])
        /\ Cardinality(Definitions(main_code[i].func)) = 1

C16_Witness ==
    /\ Len(applied) = 2
    /\ applied[1] = CloneModifier_new(0, 1)
    /\ applied[2] = CloneModifier_new(-1, 1)
    /\ main_code[1].func # main_code[2].func
    /\ Len(extra_code) = 2

-----------------------------------------------------------------------------
(* The generated function duplicate_<id> (clone.rs:61-82), run by the
   invocations of the update pass.  Every access to a binding is one step. *)

MaxInvocations == 2     \* invocations of duplicate_<id> in flight
MaxCapacity == 2        \* particles per group

\* u32 values are kept as two 16-bit limbs, so that 2^32 - 1 has a value
W16 == 65536
u32(n) == [hi |-> (n \div W16) % W16, lo |-> n % W16]
Add32(a, b) ==
    LET lo == a.lo + b.lo
    IN  [hi |-> (a.hi + b.hi + (lo \div W16)) % W16, lo |-> lo % W16]
Sub32(a, b) ==
    LET borrow == IF a.lo < b.lo THEN 1 ELSE 0
    IN  [hi |-> (a.hi - b.hi - borrow) % W16, lo |-> (a.lo - b.lo) % W16]
Mul32(a, k) ==
    LET lo == a.lo * k
    IN  [hi |-> (a.hi * k + (lo \div W16)) % W16, lo |-> lo % W16]
Le32(a, b) == a.hi < b.hi \/ (a.hi = b.hi /\ a.lo <= b.lo)

Groups == 0 .. (Len(capacities) - 1)

\* particle_groups[g].indirect_index: the first row of group g
RECURSIVE base_index(_)
base_index(g) == IF g = 0 THEN 0 ELSE base_index(g - 1) + capacities[g]
TotalCapacity == base_index(Len(capacities))
GroupRange(g) == base_index(g) .. (base_index(g) + capacities[g + 1] - 1)
GroupOfRow(row) == CHOOSE g \in Groups : row \in GroupRange(g)

\* an access outside the array reads zero or any element, and is dropped or
\* lands on any element when it writes
InBounds(arr, a) == a.hi = 0 /\ a.lo \in DOMAIN arr
Targets(arr, a) == IF InBounds(arr, a) THEN {a.lo} ELSE DOMAIN arr
Load(arr, a) ==
    {arr[i] : i \in Targets(arr, a)} \cup (IF InBounds(arr, a) THEN {} ELSE {0})
Store(arr, a, v) ==
    {[arr EXCEPT ![i] = v] : i \in Targets(arr, a)}
        \cup (IF InBounds(arr, a) THEN {} ELSE {arr})
StoreAge(arr, a, v) ==
    {[arr EXCEPT ![i].age = v] : i \in Targets(arr, a)}
        \cup (IF InBounds(arr, a) THEN {} ELSE {arr})

\* indirect_buffer.indices[3u * (base_index + i) + column]
IndirectAddr(i, column) ==
    Add32(Mul32(Add32(u32(base_index(dest)), i), 3), u32(column))

\* a particle record: one value per attribute of the particle layout
Particle(position, age) ==
    IF age_in_layout THEN [position |-> position, age |-> age]
    ELSE [position |-> position]

Invocation(source) ==
    [pc |-> "atomicSub_dead_count", source |-> source,
     particle |-> particle_buffer[source],
     dead_index |-> u32(0), index |-> 0, indirect_index |-> u32(0)]

Goto(t, label) == [invocations EXCEPT ![t].pc = label]

\* let base_index = ...; let dead_index = atomicSub(&..dead_count, 1u) - 1u;
atomicSub_dead_count_LostUpdate ==
    \E t \in DOMAIN invocations :
        /\ invocations[t].pc = "atomicSub_dead_count"
        /\ invocations' = [Goto(t, "load_index") EXCEPT ![t].dead_index =
               Sub32(render_group_indirect[dest].dead_count, u32(1))]
        /\ render_group_indirect' = IF \E s \in DOMAIN invocations :
                                           invocations[s].pc = "load_index"
              THEN render_group_indirect
              ELSE [render_group_indirect EXCEPT ![dest].dead_count =
                       Sub32(@, u32(1))]
        /\ UNCHANGED <<indirect_buffer, particle_buffer, ping, age_in_layout,
                       dest, gpu_start>>
        /\ UNCHANGED <<assetVars, propVars, clockVars, genVars, buildVars>>
atomicSub_dead_count ==
    \E t \in DOMAIN invocations :
        /\ invocations[t].pc = "atomicSub_dead_count"
        /\ invocations' = [Goto(t, "load_index") EXCEPT ![t].dead_index =
               Sub32(render_group_indirect[dest].dead_count, u32(1))]
        /\ render_group_indirect' =
               [render_group_indirect EXCEPT ![dest].dead_count = Sub32(@, u32(1))]
        /\ UNCHANGED <<indirect_buffer, particle_buffer, ping, age_in_layout,
                       dest, gpu_start>>
        /\ UNCHANGED <<assetVars, propVars, clockVars, genVars, buildVars>>

\* let index = indirect_buffer.indices[3u * (base_index + dead_index) + 2u];
load_index ==
    \E t \in DOMAIN invocations :
        /\ invocations[t].pc = "load_index"
        /\ \E index \in Load(indirect_buffer,
                             IndirectAddr(invocations[t].dead_index, 2)) :
               invocations' = [Goto(t, "store_particle") EXCEPT ![t].index = index]
        /\ UNCHANGED <<render_group_indirect, indirect_buffer, particle_buffer,
                       ping, age_in_layout, dest, gpu_start>>
        /\ UNCHANGED <<assetVars, propVars, clockVars, genVars, buildVars>>

\* particle_buffer.particles[index] = *particle;
store_particle ==
    \E t \in DOMAIN invocations :
        /\ invocations[t].pc = "store_particle"
        /\ particle_buffer' \in Store(particle_buffer, u32(invocations[t].index),
                                      invocations[t].particle)
        /\ invocations' = Goto(t, IF age_in_layout THEN "reset_age"
                                  ELSE "atomicAdd_alive_count")
        /\ UNCHANGED <<render_group_indirect, indirect_buffer, ping,
                       age_in_layout, dest, gpu_start>>
        /\ UNCHANGED <<assetVars, propVars, clockVars, genVars, buildVars>>

\* age_reset_code: particle_buffer.particles[index].age = 0.0;
reset_age_Skip ==
    \E t \in DOMAIN invocations :
        /\ invocations[t].pc = "reset_age"
        /\ invocations' = Goto(t, "atomicAdd_alive_count")
        /\ UNCHANGED <<render_group_indirect, indirect_buffer, particle_buffer,
                       ping, age_in_layout, dest, gpu_start>>
        /\ UNCHANGED <<assetVars, propVars, clockVars, genVars, buildVars>>
reset_age ==
    \E t \in DOMAIN invocations :
        /\ invocations[t].pc = "reset_age"
        /\ particle_buffer' \in StoreAge(particle_buffer, u32(invocations[t].index), 0)
        /\ invocations' = Goto(t, "atomicAdd_alive_count")
        /\ UNCHANGED <<render_group_indirect, indirect_buffer, ping,
                       age_in_layout, dest, gpu_start>>
        /\ UNCHANGED <<assetVars, propVars, clockVars, genVars, buildVars>>

\* atomicAdd(&render_group_indirect[dest].alive_count, 1u);
atomicAdd_alive_count ==
    \E t \in DOMAIN invocations :
        /\ invocations[t].pc = "atomicAdd_alive_count"
        /\ render_group_indirect' =
               [render_group_indirect EXCEPT ![dest].alive_count = Add32(@, u32(1))]
        /\ invocations' = Goto(t, "atomicAdd_instance_count")
        /\ UNCHANGED <<indirect_buffer, particle_buffer, ping, age_in_layout,
                       dest, gpu_start>>
        /\ UNCHANGED <<assetVars, propVars, clockVars, genVars, buildVars>>

\* let ping = ...; let indirect_index = atomicAdd(&..instance_count, 1u);
atomicAdd_instance_count ==
    \E t \in DOMAIN invocations :
        /\ invocations[t].pc = "atomicAdd_instance_count"
        /\ invocations' = [Goto(t, "store_instance") EXCEPT ![t].indirect_index =
               render_group_indirect[dest].instance_count]
        /\ render_group_indirect' =
               [render_group_indirect EXCEPT ![dest].instance_count = Add32(@, u32(1))]
        /\ UNCHANGED <<indirect_buffer, particle_buffer, ping, age_in_layout,
                       dest, gpu_start>>
        /\ UNCHANGED <<assetVars, propVars, clockVars, genVars, buildVars>>

\* indirect_buffer.indices[3u * (base_index + indirect_index) + ping] = index;
store_instance ==
    \E t \in DOMAIN invocations :
        /\ invocations[t].pc = "store_instance"
        /\ indirect_buffer' \in Store(indirect_buffer,
               IndirectAddr(invocations[t].indirect_index, ping),
               invocations[t].index)
        /\ invocations' = Goto(t, "done")
        /\ UNCHANGED <<render_group_indirect, particle_buffer, ping,
                       age_in_layout, dest, gpu_start>>
        /\ UNCHANGED <<assetVars, propVars, clockVars, genVars, buildVars>>

-----------------------------------------------------------------------------
(* SpecGpu: the bindings before the invocations start, then their steps in
   any interleaving. *)

GpuCapacities == {<<a, b>> : a, b \in 1 .. MaxCapacity}

\* the dead list of group g: its slots in some order
DeadListsOf(g) ==
    {f \in [0 .. (capacities[g + 1] - 1) -> GroupRange(g)] :
        \A i, j \in DOMAIN f : f[i] = f[j] => i = j}

DeadSlots(list, dead, g) == {list[g][r] : r \in 0 .. (dead[g] - 1)}
AliveSlots(list, dead, g) == GroupRange(g) \ DeadSlots(list, dead, g)
NthMin(S, k) == CHOOSE x \in S : Cardinality({y \in S : y < x}) = k

\* column 2 holds the dead list, column ping the instances written so far
IndirectEntry(list, dead, instances, i) ==
    LET g == GroupOfRow(i \div 3)
        r == (i \div 3) - base_index(g)
    IN  IF i % 3 = 2 THEN list[g][r]
        ELSE IF i % 3 = ping /\ r < instances[g]
             THEN NthMin(AliveSlots(list, dead, g), r)
        ELSE 0

InitGpu ==
    /\ AssetIdle /\ PropsIdle /\ ClockIdle /\ GenIdle
    /\ asset_name = "" /\ simulation_condition = "WhenVisible"
    /\ simulation_space = "Global" /\ alpha_mode = "Blend"
    /\ capacities \in GpuCapacities
    /\ dest \in Groups
    /\ ping \in {0, 1}
    /\ age_in_layout \in BOOLEAN
    /\ \E dead \in [Groups -> 0 .. MaxCapacity] :
       \E instances \in [Groups -> 0 .. MaxCapacity] :
       \E list \in [Groups -> UNION {DeadListsOf(g) : g \in Groups}] :
          /\ \A g \in Groups :
                /\ dead[g] <= capacities[g + 1]
                /\ instances[g] <= capacities[g + 1] - dead[g]
                /\ list[g] \in DeadListsOf(g)
                \* the other groups: never recycled from, updated already
                /\ g # dest => /\ instances[g] = capacities[g + 1] - dead[g]
                               /\ \A r \in DOMAIN list[g] : list[g][r] = base_index(g) + r
          /\ render_group_indirect = [g \in Groups |->
                [dead_count |-> u32(dead[g]),
                 alive_count |-> u32(capacities[g + 1] - dead[g]),
                 instance_count |-> u32(instances[g])]]
          /\ indirect_buffer = [i \in 0 .. (3 * TotalCapacity - 1) |->
                IndirectEntry(list, dead, instances, i)]
          /\ particle_buffer = [s \in 0 .. (TotalCapacity - 1) |-> Particle(s, s + 1)]
          /\ \E n \in 1 .. MaxInvocations :
             \E sources \in [1 .. n -> UNION {AliveSlots(list, dead, g) : g \in Groups}] :
                \* one invocation per particle, numbered in slot order
                /\ \A t \in 2 .. n : sources[t - 1] < sources[t]
                /\ invocations = [t \in 1 .. n |-> Invocation(sources[t])]
    /\ gpu_start = [render_group_indirect |-> render_group_indirect,
                    indirect_buffer |-> indirect_buffer,
                    particle_buffer |-> particle_buffer]

NextGpu ==
    \/ atomicSub_dead_count
    \/ load_index
    \/ store_particle
    \/ reset_age
    \/ atomicAdd_alive_count
    \/ atomicAdd_instance_count
    \/ store_instance

SpecGpu == InitGpu /\ [][NextGpu]_vars

-----------------------------------------------------------------------------
(* Claims about duplicate_<id> *)

Done(t) == invocations[t].pc = "done"
AllDone == \A t \in DOMAIN invocations : Done(t)
HasIndex(t) == invocations[t].pc \notin {"atomicSub_dead_count", "load_index"}
HasIndirectIndex(t) == invocations[t].pc \in {"store_instance", "done"}
Counters == render_group_indirect[dest]
StartCounters == gpu_start.render_group_indirect[dest]
StartedWithDead(n) == Le32(u32(n), StartCounters.dead_count)

\* rec is the copy duplicate_<id> makes of the particle src
IsDuplicateOf(rec, src) ==
    /\ DOMAIN rec = DOMAIN src
    /\ \A a \in DOMAIN src : rec[a] = IF a = "age" THEN 0 ELSE src[a]

\* C17: one execution of duplicate_<id> started with dead_count >= 1 takes the
\* slot at position dead_count - 1 of the destination group's dead list,
\* decrements dead_count, writes there the source particle with AGE zeroed when
\* the layout has AGE, increments alive_count and instance_count, stores the
\* slot at the previous instance_count position of the ping-side instance
\* list, and leaves the source record and the other groups' counters alone.
C17_OneExecution ==
    (Len(invocations) = 1 /\ AllDone /\ StartedWithDead(1)) =>
        LET inv == invocations[1]
            top == Sub32(StartCounters.dead_count, u32(1))
            slot == gpu_start.indirect_buffer[3 * (base_index(dest) + top.lo) + 2]
            position == 3 * (base_index(dest) + StartCounters.instance_count.lo)
                        + ping
        IN  /\ inv.index = slot
            /\ Counters.dead_count = top
            /\ IsDuplicateOf(particle_buffer[slot],
                             gpu_start.particle_buffer[inv.source])
            /\ Counters.alive_count = Add32(StartCounters.alive_count, u32(1))
            /\ Counters.instance_count = Add32(StartCounters.instance_count, u32(1))
            /\ indirect_buffer[position] = slot
            /\ particle_buffer[inv.source] = gpu_start.particle_buffer[inv.source]
            /\ \A g \in Groups \ {dest} :
                   render_group_indirect[g] = gpu_start.render_group_indirect[g]

C17_Witness ==
    /\ Len(invocations) = 1 /\ AllDone /\ StartedWithDead(1)
    /\ age_in_layout /\ dest = 1 /\ ping = 1
    /\ gpu_start.particle_buffer[invocations[1].source].age # 0
    /\ particle_buffer[invocations[1].index].age = 0
    /\ gpu_start.indirect_buffer # indirect_buffer

\* C18: n concurrent invocations into one destination group that starts with
\* dead_count >= n obtain pairwise distinct slots and pairwise distinct
\* instance-list positions in every interleaving, none overwrites another's
\* record or entry, and once all are done dead_count is n lower and
\* alive_count and instance_count are n higher.
C18_ConcurrentDistinct ==
    StartedWithDead(Len(invocations)) =>
        /\ \A s, t \in DOMAIN invocations :
               (s # t /\ HasIndex(s) /\ HasIndex(t)) =>
                   invocations[s].index # invocations[t].index
        /\ \A s, t \in DOMAIN invocations :
               (s # t /\ HasIndirectIndex(s) /\ HasIndirectIndex(t)) =>
                   invocations[s].indirect_index # invocations[t].indirect_index
        /\ AllDone =>
              /\ \A t \in DOMAIN invocations :
                    /\ IsDuplicateOf(particle_buffer[invocations[t].index],
                                     invocations[t].particle)
                    /\ indirect_buffer[3 * (base_index(dest)
                                            + invocations[t].indirect_index.lo)
                                       + ping] = invocations[t].index
              /\ Counters.dead_count =
                     Sub32(StartCounters.dead_count, u32(Len(invocations)))
              /\ Counters.alive_count =
                     Add32(StartCounters.alive_count, u32(Len(invocations)))
              /\ Counters.instance_count =
                     Add32(StartCounters.instance_count, u32(Len(invocations)))

C18_Witness ==
    /\ Len(invocations) = MaxInvocations /\ AllDone
    /\ StartedWithDead(MaxInvocations)
    /\ invocations[1].dead_index = u32(0)
    /\ invocations[1].indirect_index = u32(1)

\* C19: duplicate_<id> run with dead_count = 0 overwrites no particle record
\* of the destination group and leaves its dead_count, alive_count and
\* instance_count as they were.
C19_UnderflowIsNoOp ==
    (Len(invocations) = 1 /\ AllDone /\ StartCounters.dead_count = u32(0)) =>
        /\ \A s \in GroupRange(dest) :
               particle_buffer[s] = gpu_start.particle_buffer[s]
        /\ Counters = StartCounters

\* C20: once every started invocation is done, alive_count <= capacity and
\* alive_count + dead_count = capacity in the destination group, and every
\* recycled slot lies in the group's range of the particle buffer.
C20_CapacityConserved ==
    AllDone =>
        /\ Le32(Counters.alive_count, u32(capacities[dest + 1]))
        /\ Add32(Counters.alive_count, Counters.dead_count)
               = u32(capacities[dest + 1])
        /\ \A t \in DOMAIN invocations : invocations[t].index \in GroupRange(dest)

-----------------------------------------------------------------------------
(* Claims about the accumulated main code *)

\* the statements of main_code that declare a local with `let`
LetDeclarations == {k \in DOMAIN main_code : main_code[k].kind = "loop"}

\* C21: whatever CloneModifiers are applied to one ShaderWriter, the names
\* declared with `let` in its main code (multiple_count_<id>) are pairwise
\* distinct: no name is declared twice in the same scope.
C21_LetNamesDistinct ==
    \A j, k \in LetDeclarations :
        j # k => main_code[j].let # main_code[k].let

-----------------------------------------------------------------------------
(* SpecClone: an asset built with EffectAsset::new, then CloneModifiers
   registered with update() and update_groups().  The lists hold the
   modifiers themselves (Box<dyn Modifier>), fields included. *)

\* update(modifier) with M = CloneModifier: context() is Update, the assert holds
update_CloneModifier ==
    \E self \in CloneModifiers :
        /\ contains(context("Clone"), CtxUpdate)
        /\ update_modifiers' = Append(update_modifiers, GroupedModifier(self, all))
        /\ UNCHANGED <<init_modifiers, render_modifiers>>
        /\ Returns("update", CtxUpdate, "Clone", GroupedModifier(self, all))

\* update_groups(modifier, groups) with M = CloneModifier
update_groups_CloneModifier ==
    \E self \in CloneModifiers, groups \in GroupSetInputs :
        /\ update_modifiers' = Append(update_modifiers, GroupedModifier(self, groups))
        /\ UNCHANGED <<init_modifiers, render_modifiers>>
        /\ Returns("update_groups", CtxUpdate, "Clone", GroupedModifier(self, groups))

InitClone ==
    /\ \E caps \in CapacityInputs : new(caps)
    /\ last = NoCall /\ log = <<>>
    /\ ClockIdle /\ GenIdle /\ GpuIdle

NextClone ==
    \/ update_CloneModifier
    \/ update_groups_CloneModifier

SpecClone == InitClone /\ [][NextClone]_vars

\* C22: every CloneModifier in the update modifier list of an effect has a
\* destination_group that is a group index of the effect:
\* destination_group < capacities().len().
C22_DestinationGroupValid ==
    \A i \in DOMAIN update_modifiers :
        update_modifiers[i].modifier.destination_group < Len(capacities)

=============================================================================
